---- MODULE Spec2Model ----
(***************************************************************************)
(* Model of AFPacketConfigurator                                           *)
(* (defaultplugins/ifplugin/afpacket_config.go): the dual-index cache of   *)
(* AF_PACKET interface configurations, the set of known host interfaces,   *)
(* and the entry points Configure / Modify / Delete /                      *)
(* ResolveCreatedLinuxInterface / ResolveDeletedLinuxInterface.            *)
(*                                                                         *)
(* An interface descriptor (intf.Interfaces_Interface) is the record       *)
(* [Name, Type, HostIfName, Mtu] where HostIfName stands for the Afpacket  *)
(* sub-message and Mtu for the attributes that take part in no decision.   *)
(* An AfPacketConfig object is never written after addToCache built it, so *)
(* the pointer that both maps hold is modelled by the value                *)
(* [config, pending].                                                      *)
(*                                                                         *)
(* Two interface names and two host interface names are used: an entry     *)
(* point reads and writes the maps under at most two names (Modify: old    *)
(* and new) and one host interface name, so every way in which the keys of *)
(* a call can alias the entries of other interfaces occurs with two.       *)
(***************************************************************************)
EXTENDS Integers, Sequences, FiniteSets, TLC

MaxMtu == 1
MaxSwIdx == 1

Names == {"afpkt0", "afpkt1"}
HostIfs == {"veth0", "veth1"}
Mtus == 0..MaxMtu
SwIdxs == 1..MaxSwIdx

AF_PACKET == "AF_PACKET_INTERFACE"
OtherType == "TAP_INTERFACE"
Types == {AF_PACKET, OtherType}

\* A descriptor of another type has no Afpacket sub-message (HostIfName "").
Descriptors ==
  [Name : Names, Type : {AF_PACKET}, HostIfName : HostIfs, Mtu : Mtus]
    \cup [Name : Names, Type : {OtherType}, HostIfName : {""}, Mtu : {0}]
NoDesc == [Name |-> "", Type |-> "nil", HostIfName |-> "", Mtu |-> 0]

ErrNil == "nil"
ErrInvalidType == "Expecting AfPacket interface"
ErrDriver == "vpp error"

VARIABLES
  withLinuxPlugin,    \* is linux plugin loaded ?
  afPacketByHostIf,   \* host interface name -> AfPacketConfig
  afPacketByName,     \* af packet name -> AfPacketConfig
  hostInterfaces,     \* a set of available host interfaces
  vppIfs,             \* AF_PACKET parameters of the device objects live in the dataplane
  op,                 \* the entry point executed last and its arguments
  calls,              \* the Driver calls issued by the entry point executed last
  ret                 \* the values returned by the entry point executed last

vars == <<withLinuxPlugin, afPacketByHostIf, afPacketByName, hostInterfaces, vppIfs, op, calls, ret>>

\* AfPacketConfig{config, pending}
AfPacketConfig(config, pending) == [config |-> config, pending |-> pending]

\* Go map primitives: m[k] = v, delete(m, k)
MapPut(m, k, v) == [x \in (DOMAIN m) \cup {k} |-> IF x = k THEN v ELSE m[x]]
MapDelete(m, k) == [x \in (DOMAIN m) \ {k} |-> m[x]]
EmptyMap == [x \in {} |-> NoDesc]

\* The part of the plugin that the entry points read and write, as one value.
Plugin == [withLinuxPlugin |-> withLinuxPlugin, afPacketByHostIf |-> afPacketByHostIf,
           afPacketByName |-> afPacketByName, hostInterfaces |-> hostInterfaces,
           calls |-> <<>>]

\* One Driver call as it is logged: which call, on which Afpacket parameters,
\* its outcome, and whether the host interface was known when it was issued.
DriverCall(p, call, params, ok) ==
  [call |-> call, params |-> params, ok |-> ok, hostIfAvail |-> params \in p.hostInterfaces]

\* vppcalls.AddAfPacketInterface: creates the device object, returns its index
AddAfPacketInterface(p, params, ok, idx) ==
  [p |-> [p EXCEPT !.calls = Append(@, DriverCall(p, "create", params, ok))],
   swIdx |-> IF ok THEN idx ELSE 0,
   err |-> IF ok THEN ErrNil ELSE ErrDriver]

\* vppcalls.DeleteAfPacketInterface: removes the device object
VppDeleteAfPacketInterface(p, params, ok) ==
  [p |-> [p EXCEPT !.calls = Append(@, DriverCall(p, "delete", params, ok))],
   err |-> IF ok THEN ErrNil ELSE ErrDriver]

addToCache(p, afpacket, pending) ==
  LET config == AfPacketConfig(afpacket, pending)
  IN [p EXCEPT !.afPacketByHostIf = MapPut(@, afpacket.HostIfName, config),
               !.afPacketByName = MapPut(@, afpacket.Name, config)]

removeFromCache(p, afpacket) ==
  [p EXCEPT !.afPacketByName = MapDelete(@, afpacket.Name),
            !.afPacketByHostIf = MapDelete(@, afpacket.HostIfName)]

\* Mutant: the host interface is not looked up before the create call.
Configure_NoHostIfCheck(p, afpacket, ok, idx) ==
  IF afpacket.Type # AF_PACKET
  THEN [p |-> p, swIndex |-> 0, pending |-> FALSE, err |-> ErrInvalidType]
  ELSE LET r == AddAfPacketInterface(p, afpacket.HostIfName, ok, idx)
       IN [p |-> IF r.err = ErrNil THEN addToCache(r.p, afpacket, FALSE) ELSE r.p,
           swIndex |-> r.swIdx, pending |-> FALSE, err |-> r.err]

\* Mutant: a held request is reported as pending but is not put in the cache.
Configure_PendingNotCached(p, afpacket, ok, idx) ==
  IF afpacket.Type # AF_PACKET
  THEN [p |-> p, swIndex |-> 0, pending |-> FALSE, err |-> ErrInvalidType]
  ELSE IF p.withLinuxPlugin /\ afpacket.HostIfName \notin p.hostInterfaces
  THEN [p |-> p, swIndex |-> 0, pending |-> TRUE, err |-> ErrNil]
  ELSE LET r == AddAfPacketInterface(p, afpacket.HostIfName, ok, idx)
       IN [p |-> IF r.err = ErrNil THEN addToCache(r.p, afpacket, FALSE) ELSE r.p,
           swIndex |-> r.swIdx, pending |-> FALSE, err |-> r.err]

\* Mutant: the entry is cached before the outcome of the create call is looked at.
Configure_CachedOnError(p, afpacket, ok, idx) ==
  IF afpacket.Type # AF_PACKET
  THEN [p |-> p, swIndex |-> 0, pending |-> FALSE, err |-> ErrInvalidType]
  ELSE IF p.withLinuxPlugin /\ afpacket.HostIfName \notin p.hostInterfaces
  THEN [p |-> addToCache(p, afpacket, TRUE), swIndex |-> 0, pending |-> TRUE, err |-> ErrNil]
  ELSE LET r == AddAfPacketInterface(p, afpacket.HostIfName, ok, idx)
       IN [p |-> addToCache(r.p, afpacket, FALSE),
           swIndex |-> r.swIdx, pending |-> FALSE, err |-> r.err]

\* returns [p, swIndex, pending, err]
ConfigureAfPacketInterface(p, afpacket, ok, idx) ==
  IF afpacket.Type # AF_PACKET
  THEN [p |-> p, swIndex |-> 0, pending |-> FALSE, err |-> ErrInvalidType]
  ELSE IF p.withLinuxPlugin /\ afpacket.HostIfName \notin p.hostInterfaces
  THEN [p |-> addToCache(p, afpacket, TRUE), swIndex |-> 0, pending |-> TRUE, err |-> ErrNil]
  ELSE LET r == AddAfPacketInterface(p, afpacket.HostIfName, ok, idx)
       IN [p |-> IF r.err = ErrNil THEN addToCache(r.p, afpacket, FALSE) ELSE r.p,
           swIndex |-> r.swIdx, pending |-> FALSE, err |-> r.err]

\* Mutant: a pending entry is rewritten in place instead of being recreated.
Modify_IgnorePending(p, newConfig, oldConfig) ==
  IF oldConfig.Type # AF_PACKET \/ newConfig.Type # AF_PACKET
  THEN [p |-> p, recreate |-> FALSE, err |-> ErrInvalidType]
  ELSE LET found == oldConfig.Name \in DOMAIN p.afPacketByName
       IN IF ~found \/ newConfig.HostIfName # oldConfig.HostIfName
          THEN [p |-> p, recreate |-> TRUE, err |-> ErrNil]
          ELSE [p |-> addToCache(p, newConfig, FALSE), recreate |-> FALSE, err |-> ErrNil]

\* Mutant: only the type of the new descriptor is validated.
Modify_ChecksNewTypeOnly(p, newConfig, oldConfig) ==
  IF newConfig.Type # AF_PACKET
  THEN [p |-> p, recreate |-> FALSE, err |-> ErrInvalidType]
  ELSE LET found == oldConfig.Name \in DOMAIN p.afPacketByName
       IN IF \/ ~found
             \/ p.afPacketByName[oldConfig.Name].pending
             \/ newConfig.HostIfName # oldConfig.HostIfName
          THEN [p |-> p, recreate |-> TRUE, err |-> ErrNil]
          ELSE [p |-> addToCache(p, newConfig, FALSE), recreate |-> FALSE, err |-> ErrNil]

\* Mutant: the cache is rewritten also when recreation is asked for.
Modify_RewritesOnRecreate(p, newConfig, oldConfig) ==
  IF oldConfig.Type # AF_PACKET \/ newConfig.Type # AF_PACKET
  THEN [p |-> p, recreate |-> FALSE, err |-> ErrInvalidType]
  ELSE LET found == oldConfig.Name \in DOMAIN p.afPacketByName
       IN IF \/ ~found
             \/ p.afPacketByName[oldConfig.Name].pending
             \/ newConfig.HostIfName # oldConfig.HostIfName
          THEN [p |-> addToCache(p, newConfig, FALSE), recreate |-> TRUE, err |-> ErrNil]
          ELSE [p |-> addToCache(p, newConfig, FALSE), recreate |-> FALSE, err |-> ErrNil]

\* returns [p, recreate, err]
ModifyAfPacketInterface(p, newConfig, oldConfig) ==
  IF oldConfig.Type # AF_PACKET \/ newConfig.Type # AF_PACKET
  THEN [p |-> p, recreate |-> FALSE, err |-> ErrInvalidType]
  ELSE LET found == oldConfig.Name \in DOMAIN p.afPacketByName
       IN IF \/ ~found
             \/ p.afPacketByName[oldConfig.Name].pending
             \/ newConfig.HostIfName # oldConfig.HostIfName
          THEN [p |-> p, recreate |-> TRUE, err |-> ErrNil]
          ELSE [p |-> addToCache(p, newConfig, FALSE), recreate |-> FALSE, err |-> ErrNil]

\* Mutant: a failed Driver call returns before the cache is cleaned.
Delete_KeepOnError(p, afpacket, ok) ==
  IF afpacket.Type # AF_PACKET
  THEN [p |-> p, err |-> ErrInvalidType]
  ELSE LET found == afpacket.Name \in DOMAIN p.afPacketByName
           r == IF ~found \/ ~p.afPacketByName[afpacket.Name].pending
                THEN VppDeleteAfPacketInterface(p, afpacket.HostIfName, ok)
                ELSE [p |-> p, err |-> ErrNil]
       IN [p |-> IF r.err = ErrNil THEN removeFromCache(r.p, afpacket) ELSE r.p, err |-> r.err]

\* Mutant: the Driver is called for a pending entry too.
Delete_AlwaysCallsDriver(p, afpacket, ok) ==
  IF afpacket.Type # AF_PACKET
  THEN [p |-> p, err |-> ErrInvalidType]
  ELSE LET r == VppDeleteAfPacketInterface(p, afpacket.HostIfName, ok)
       IN [p |-> removeFromCache(r.p, afpacket), err |-> r.err]

\* returns [p, err]
DeleteAfPacketInterface(p, afpacket, ok) ==
  IF afpacket.Type # AF_PACKET
  THEN [p |-> p, err |-> ErrInvalidType]
  ELSE LET found == afpacket.Name \in DOMAIN p.afPacketByName
           r == IF ~found \/ ~p.afPacketByName[afpacket.Name].pending
                THEN VppDeleteAfPacketInterface(p, afpacket.HostIfName, ok)
                ELSE [p |-> p, err |-> ErrNil]
       IN [p |-> removeFromCache(r.p, afpacket), err |-> r.err]

\* Mutant: the new host interface is not added to hostInterfaces.
ResolveCreated_NotRegistered(p, interfaceName) ==
  IF ~p.withLinuxPlugin
  THEN [p |-> p, desc |-> NoDesc]
  ELSE LET found == interfaceName \in DOMAIN p.afPacketByHostIf
       IN IF found /\ p.afPacketByHostIf[interfaceName].pending
          THEN [p |-> p, desc |-> p.afPacketByHostIf[interfaceName].config]
          ELSE [p |-> p, desc |-> NoDesc]

\* Mutant: the entry found is handed back whether it is pending or not.
ResolveCreated_ReturnsAnyEntry(p, interfaceName) ==
  IF ~p.withLinuxPlugin
  THEN [p |-> p, desc |-> NoDesc]
  ELSE LET q == [p EXCEPT !.hostInterfaces = @ \cup {interfaceName}]
           found == interfaceName \in DOMAIN q.afPacketByHostIf
       IN IF found
          THEN [p |-> q, desc |-> q.afPacketByHostIf[interfaceName].config]
          ELSE [p |-> q, desc |-> NoDesc]

\* returns [p, desc]
ResolveCreatedLinuxInterface(p, interfaceName) ==
  IF ~p.withLinuxPlugin
  THEN [p |-> p, desc |-> NoDesc]
  ELSE LET q == [p EXCEPT !.hostInterfaces = @ \cup {interfaceName}]
           found == interfaceName \in DOMAIN q.afPacketByHostIf
       IN IF found /\ q.afPacketByHostIf[interfaceName].pending
          THEN [p |-> q, desc |-> q.afPacketByHostIf[interfaceName].config]
          ELSE [p |-> q, desc |-> NoDesc]

\* Mutant: the vanished host interface stays in hostInterfaces.
ResolveDeleted_KeepsHostIf(p, interfaceName, okDel, okAdd, idx) ==
  IF ~p.withLinuxPlugin
  THEN p
  ELSE LET found == interfaceName \in DOMAIN p.afPacketByHostIf
       IN IF found
          THEN LET afpacket == p.afPacketByHostIf[interfaceName]
                   d == DeleteAfPacketInterface(p, afpacket.config, okDel)
                   c == ConfigureAfPacketInterface(d.p, afpacket.config, okAdd, idx)
               IN c.p
          ELSE p

\* Mutant: the handler does not look at withLinuxPlugin.
ResolveDeleted_NoTrackingGuard(p, interfaceName, okDel, okAdd, idx) ==
  LET q == [p EXCEPT !.hostInterfaces = @ \ {interfaceName}]
      found == interfaceName \in DOMAIN q.afPacketByHostIf
  IN IF found
     THEN LET afpacket == q.afPacketByHostIf[interfaceName]
              d == DeleteAfPacketInterface(q, afpacket.config, okDel)
              c == ConfigureAfPacketInterface(d.p, afpacket.config, okAdd, idx)
          IN c.p
     ELSE q

\* Mutant: the entry is removed but not added again as pending.
ResolveDeleted_NotReAdded(p, interfaceName, okDel, okAdd, idx) ==
  IF ~p.withLinuxPlugin
  THEN p
  ELSE LET q == [p EXCEPT !.hostInterfaces = @ \ {interfaceName}]
           found == interfaceName \in DOMAIN q.afPacketByHostIf
       IN IF found
          THEN DeleteAfPacketInterface(q, q.afPacketByHostIf[interfaceName].config, okDel).p
          ELSE q

\* returns p; the results of the two nested calls are not looked at
ResolveDeletedLinuxInterface(p, interfaceName, okDel, okAdd, idx) ==
  IF ~p.withLinuxPlugin
  THEN p
  ELSE LET q == [p EXCEPT !.hostInterfaces = @ \ {interfaceName}]
           found == interfaceName \in DOMAIN q.afPacketByHostIf
       IN IF found
          THEN LET afpacket == q.afPacketByHostIf[interfaceName]
                   d == DeleteAfPacketInterface(q, afpacket.config, okDel)
                   c == ConfigureAfPacketInterface(d.p, afpacket.config, okAdd, idx)
               IN c.p
          ELSE q

IsPendingAfPacket(p, iface) ==
  iface.Name \in DOMAIN p.afPacketByName /\ p.afPacketByName[iface.Name].pending

NoRet == [swIndex |-> 0, pending |-> FALSE, recreate |-> FALSE, err |-> ErrNil, desc |-> NoDesc]
NoOp == [name |-> "idle", new |-> NoDesc, old |-> NoDesc, host |-> ""]

\* Init(): empty maps; withLinuxPlugin is left as the plugin was constructed
Init ==
  /\ withLinuxPlugin \in BOOLEAN
  /\ afPacketByHostIf = EmptyMap
  /\ afPacketByName = EmptyMap
  /\ hostInterfaces = {}
  /\ vppIfs = {}
  /\ op = NoOp
  /\ calls = <<>>
  /\ ret = NoRet

Store(p) ==
  /\ afPacketByHostIf' = p.afPacketByHostIf
  /\ afPacketByName' = p.afPacketByName
  /\ hostInterfaces' = p.hostInterfaces
  /\ calls' = p.calls
  /\ UNCHANGED withLinuxPlugin

\* host is the host interface whose appearance made the caller configure d
\* ("" when the call is the caller's own).
Configure(d, ok, idx, host) ==
  LET r == ConfigureAfPacketInterface(Plugin, d, ok, idx)
  IN /\ Store(r.p)
     /\ op' = [NoOp EXCEPT !.name = "Configure", !.new = d, !.host = host]
     /\ ret' = [NoRet EXCEPT !.swIndex = r.swIndex, !.pending = r.pending, !.err = r.err]

Modify(new, old) ==
  LET r == ModifyAfPacketInterface(Plugin, new, old)
  IN /\ Store(r.p)
     /\ op' = [NoOp EXCEPT !.name = "Modify", !.new = new, !.old = old]
     /\ ret' = [NoRet EXCEPT !.recreate = r.recreate, !.err = r.err]

Delete(d, ok) ==
  LET r == DeleteAfPacketInterface(Plugin, d, ok)
  IN /\ Store(r.p)
     /\ op' = [NoOp EXCEPT !.name = "Delete", !.new = d]
     /\ ret' = [NoRet EXCEPT !.err = r.err]

Appeared(h) ==
  LET r == ResolveCreatedLinuxInterface(Plugin, h)
  IN /\ Store(r.p)
     /\ op' = [NoOp EXCEPT !.name = "Appeared", !.host = h]
     /\ ret' = [NoRet EXCEPT !.desc = r.desc]

Vanished(h, okDel, okAdd, idx) ==
  LET p == ResolveDeletedLinuxInterface(Plugin, h, okDel, okAdd, idx)
  IN /\ Store(p)
     /\ op' = [NoOp EXCEPT !.name = "Vanished", !.host = h]
     /\ ret' = NoRet

\* The caller has taken the results of the call; no call is in progress.
Return ==
  /\ op # NoOp
  /\ op' = NoOp
  /\ calls' = <<>>
  /\ ret' = NoRet
  /\ UNCHANGED <<withLinuxPlugin, afPacketByHostIf, afPacketByName, hostInterfaces, vppIfs>>

\* The caller of ResolveCreatedLinuxInterface configures the interface that
\* the resolver handed back ("afpacket is now free to get created").
ReConfigure(ok, idx) ==
  /\ op.name = "Appeared"
  /\ ret.desc # NoDesc
  /\ Configure(ret.desc, ok, idx, op.host)

\* Calls are serialized: an entry point is entered when no call is in progress.
Idle == op = NoOp

\* The Driver seen as an oracle: its calls succeed or fail, the objects of the
\* device are not followed.
NoDevice == UNCHANGED vppIfs

Next ==
  \/ Idle /\ NoDevice /\ \E d \in Descriptors, ok \in BOOLEAN, idx \in SwIdxs :
                          Configure(d, ok, idx, "")
  \/ Idle /\ NoDevice /\ \E new \in Descriptors, old \in Descriptors : Modify(new, old)
  \/ Idle /\ NoDevice /\ \E d \in Descriptors, ok \in BOOLEAN : Delete(d, ok)
  \/ Idle /\ NoDevice /\ \E h \in HostIfs : Appeared(h)
  \/ Idle /\ NoDevice /\ \E h \in HostIfs, okDel \in BOOLEAN, okAdd \in BOOLEAN, idx \in SwIdxs :
                          Vanished(h, okDel, okAdd, idx)
  \/ NoDevice /\ \E ok \in BOOLEAN, idx \in SwIdxs : ReConfigure(ok, idx)
  \/ Return

Spec == Init /\ [][Next]_vars

AfDescriptors == {d \in Descriptors : d.Type = AF_PACKET}

\* Driver calls of one kind issued by the entry point executed last
CallsOf(cs, kind) == {i \in DOMAIN cs : cs[i].call = kind}

\* lookupByName / lookupByHostIf found an entry with the given pending flag
CachedByName(name, pending) ==
  name \in DOMAIN afPacketByName /\ afPacketByName[name].pending = pending
CachedByHostIf(host, pending) ==
  host \in DOMAIN afPacketByHostIf /\ afPacketByHostIf[host].pending = pending

(***************************************************************************)
(* C1: with host-interface tracking enabled, every Driver create call is   *)
(* issued while the descriptor's HostIfName is in hostInterfaces, whether  *)
(* Configure was called by the orchestrator or from inside                 *)
(* ResolveDeletedLinuxInterface (which therefore never creates).           *)
(***************************************************************************)
C1_CreateOnlyIfHostIfPresent ==
  withLinuxPlugin =>
    /\ \A i \in CallsOf(calls, "create") :
          calls[i].hostIfAvail /\ calls[i].params \in hostInterfaces
    /\ op.name = "Vanished" => CallsOf(calls, "create") = {}

C1_Witness ==
  /\ withLinuxPlugin
  /\ op.name = "Configure"
  /\ CallsOf(calls, "create") # {}
  /\ op.new.HostIfName \in hostInterfaces

(***************************************************************************)
(* C2 (invariant I1): the name index has an entry for an interface iff the *)
(* host-interface index has one under that interface's HostIfName, and     *)
(* both are the same entry.                                                *)
(***************************************************************************)
C2_I1 ==
  /\ \A n \in DOMAIN afPacketByName :
        LET e == afPacketByName[n]
        IN /\ e.config.HostIfName \in DOMAIN afPacketByHostIf
           /\ afPacketByHostIf[e.config.HostIfName] = e
  /\ \A h \in DOMAIN afPacketByHostIf :
        LET e == afPacketByHostIf[h]
        IN /\ e.config.Name \in DOMAIN afPacketByName
           /\ afPacketByName[e.config.Name] = e

(***************************************************************************)
(* C3 (P4, demotion): with tracking enabled, for every Active entry        *)
(* (cached by name, pending=false) bound to host interface h,              *)
(* ResolveDeletedLinuxInterface(h) issues exactly one Driver delete call   *)
(* and no create call, and afterwards the same descriptor is cached with   *)
(* pending=true and h is not in hostInterfaces.                            *)
(***************************************************************************)
C3_Demotion ==
  [][(withLinuxPlugin /\ op'.name = "Vanished") =>
       \A n \in DOMAIN afPacketByName :
         (~afPacketByName[n].pending /\ afPacketByName[n].config.HostIfName = op'.host) =>
           /\ Cardinality(CallsOf(calls', "delete")) = 1
           /\ CallsOf(calls', "create") = {}
           /\ n \in DOMAIN afPacketByName'
           /\ afPacketByName'[n] = AfPacketConfig(afPacketByName[n].config, TRUE)
           /\ op'.host \notin hostInterfaces']_vars

(***************************************************************************)
(* C4 (P3, promotion): with tracking enabled, when the host-interface      *)
(* index holds a pending entry under h, ResolveCreatedLinuxInterface(h)    *)
(* returns that entry's descriptor without a Driver call; the Configure of *)
(* that descriptor that follows, its Driver create succeeding, issues      *)
(* exactly one Driver create call, leaves the entry cached in both indices *)
(* with pending=false, and returns pending=false and the Driver's handle.  *)
(***************************************************************************)
C4_Promotion ==
  [][/\ (withLinuxPlugin /\ op'.name = "Appeared" /\ CachedByHostIf(op'.host, TRUE)) =>
          /\ ret'.desc = afPacketByHostIf[op'.host].config
          /\ calls' = <<>>
     /\ (/\ withLinuxPlugin /\ op.name = "Appeared" /\ ret.desc # NoDesc
         /\ op'.name = "Configure" /\ op'.new = ret.desc
         /\ \A i \in DOMAIN calls' : calls'[i].ok) =>
          /\ calls = <<>>
          /\ Len(calls') = 1
          /\ calls'[1].call = "create"
          /\ calls'[1].params = op.host
          /\ afPacketByName'[ret.desc.Name] = AfPacketConfig(ret.desc, FALSE)
          /\ afPacketByHostIf'[op.host] = AfPacketConfig(ret.desc, FALSE)
          /\ ret'.pending = FALSE
          /\ ret'.err = ErrNil
          /\ ret'.swIndex \in SwIdxs]_vars

C4_Witness ==
  /\ withLinuxPlugin
  /\ op.name = "Configure"
  /\ op.host # ""
  /\ Len(calls) = 1
  /\ calls[1].ok
  /\ CachedByName(op.new.Name, FALSE)

(***************************************************************************)
(* C6 (P2, pending correctness), as claimed: for every AF_PACKET           *)
(* descriptor whose HostIfName is not in hostInterfaces at Configure time, *)
(* Configure returns (0, true, nil), issues no Driver call, and            *)
(* IsPendingAfPacket is true for the descriptor right afterwards.          *)
(***************************************************************************)
PendingOutcome ==
  /\ ret'.swIndex = 0
  /\ ret'.pending = TRUE
  /\ ret'.err = ErrNil
  /\ calls' = <<>>
  /\ IsPendingAfPacket([afPacketByName |-> afPacketByName'], op'.new)

C6_PendingCorrectness_Original ==
  [][(/\ op'.name = "Configure"
      /\ op'.new.Type = AF_PACKET
      /\ op'.new.HostIfName \notin hostInterfaces) => PendingOutcome]_vars

(***************************************************************************)
(* C6 amended: the same, for a plugin with host-interface tracking enabled *)
(* (withLinuxPlugin); without tracking Configure creates at once.          *)
(***************************************************************************)
C6_PendingCorrectness ==
  [][(/\ withLinuxPlugin
      /\ op'.name = "Configure"
      /\ op'.new.Type = AF_PACKET
      /\ op'.new.HostIfName \notin hostInterfaces) => PendingOutcome]_vars

C6_Witness ==
  /\ withLinuxPlugin
  /\ op.name = "Configure"
  /\ op.new.HostIfName \notin hostInterfaces
  /\ ret.pending
  /\ IsPendingAfPacket(Plugin, op.new)

(***************************************************************************)
(* C7 (P5, modify recreate rule): for AF_PACKET old and new descriptors,   *)
(* Modify returns recreate=true iff no entry is cached for the old name,   *)
(* or that entry is pending, or the HostIfName differs; otherwise it       *)
(* returns recreate=false and the cache holds the new descriptor with      *)
(* pending=false.                                                          *)
(***************************************************************************)
C7_ModifyRecreateRule ==
  [][(/\ op'.name = "Modify"
      /\ op'.new.Type = AF_PACKET
      /\ op'.old.Type = AF_PACKET) =>
       LET recreate == \/ op'.old.Name \notin DOMAIN afPacketByName
                       \/ afPacketByName[op'.old.Name].pending
                       \/ op'.new.HostIfName # op'.old.HostIfName
       IN /\ ret'.recreate = recreate
          /\ ret'.err = ErrNil
          /\ ~recreate =>
               /\ op'.new.Name \in DOMAIN afPacketByName'
               /\ afPacketByName'[op'.new.Name] = AfPacketConfig(op'.new, FALSE)
               /\ op'.new.HostIfName \in DOMAIN afPacketByHostIf'
               /\ afPacketByHostIf'[op'.new.HostIfName] = AfPacketConfig(op'.new, FALSE)]_vars

C7_Witness ==
  /\ op.name = "Modify"
  /\ ret.err = ErrNil
  /\ ~ret.recreate
  /\ op.new # op.old
  /\ CachedByName(op.new.Name, FALSE)
  /\ afPacketByName[op.new.Name].config = op.new

(***************************************************************************)
(* C8 (P6): after Delete of an AF_PACKET descriptor the name index holds   *)
(* no entry for its Name, whatever the Driver call did; the error returned *)
(* is the Driver's (nil when the call succeeded or was skipped); Delete    *)
(* leaves nothing under the descriptor's two keys, and a Delete that finds *)
(* nothing under them (a second Delete) leaves the cache unchanged.        *)
(***************************************************************************)
C8_DeleteAlwaysRemoves ==
  [][(op'.name = "Delete" /\ op'.new.Type = AF_PACKET) =>
       /\ op'.new.Name \notin DOMAIN afPacketByName'
       /\ op'.new.HostIfName \notin DOMAIN afPacketByHostIf'
       /\ ret'.err = IF \E i \in DOMAIN calls' : ~calls'[i].ok THEN ErrDriver ELSE ErrNil
       /\ (/\ op'.new.Name \notin DOMAIN afPacketByName
           /\ op'.new.HostIfName \notin DOMAIN afPacketByHostIf) =>
            /\ UNCHANGED <<afPacketByName, afPacketByHostIf>>
            /\ Len(calls') = 1]_vars

C8_Witness ==
  /\ op.name = "Delete"
  /\ ret.err = ErrDriver
  /\ Len(calls) = 1
  /\ ~calls[1].ok
  /\ op.new.Name \notin DOMAIN afPacketByName

(***************************************************************************)
(* C9: Delete of an AF_PACKET descriptor issues a Driver delete call iff   *)
(* no entry is cached for its Name or the entry found is not pending; when *)
(* the entry found is pending there is no Driver call, the entry is        *)
(* removed and the error returned is nil.                                  *)
(***************************************************************************)
C9_DeleteDriverCall ==
  [][(op'.name = "Delete" /\ op'.new.Type = AF_PACKET) =>
       LET found == op'.new.Name \in DOMAIN afPacketByName
           pending == found /\ afPacketByName[op'.new.Name].pending
       IN /\ CallsOf(calls', "create") = {}
          /\ ~pending =>
               /\ Len(calls') = 1
               /\ calls'[1].call = "delete"
               /\ calls'[1].params = op'.new.HostIfName
          /\ pending =>
               /\ calls' = <<>>
               /\ op'.new.Name \notin DOMAIN afPacketByName'
               /\ ret'.err = ErrNil]_vars

\* a Delete without a Driver call: the entry found was pending
C9_Witness ==
  /\ op.name = "Delete"
  /\ op.new.Type = AF_PACKET
  /\ calls = <<>>
  /\ ret.err = ErrNil
  /\ op.new.Name \notin DOMAIN afPacketByName

(***************************************************************************)
(* C10 (P1, type guard): Configure, Modify and Delete called with a        *)
(* descriptor whose Type is not AF_PACKET (for Modify: the old or the new  *)
(* one) return the "Expecting AfPacket interface" error, issue no Driver   *)
(* call, and leave both indices and hostInterfaces unchanged.              *)
(***************************************************************************)
C10_TypeGuard ==
  [][(\/ op'.name \in {"Configure", "Delete"} /\ op'.new.Type # AF_PACKET
      \/ op'.name = "Modify" /\ (op'.new.Type # AF_PACKET \/ op'.old.Type # AF_PACKET)) =>
       /\ ret'.err = ErrInvalidType
       /\ calls' = <<>>
       /\ UNCHANGED <<afPacketByName, afPacketByHostIf, hostInterfaces>>]_vars

C10_Witness ==
  /\ op.name = "Modify"
  /\ op.new.Type = AF_PACKET
  /\ op.old.Type # AF_PACKET
  /\ op.old.Name \in DOMAIN afPacketByName
  /\ ret.err = ErrInvalidType

(***************************************************************************)
(* Specification for held requests: host-interface tracking is enabled,    *)
(* the Driver never fails, the orchestrator configures interfaces that are *)
(* not configured yet, deletes the ones it configured, and always          *)
(* configures the descriptor that ResolveCreatedLinuxInterface returns.    *)
(***************************************************************************)
LiveInit == Init /\ withLinuxPlugin

LiveConfigure ==
  /\ Idle
  /\ NoDevice
  /\ \E d \in AfDescriptors, idx \in SwIdxs :
       d.Name \notin DOMAIN afPacketByName /\ Configure(d, TRUE, idx, "")

LiveDelete ==
  /\ Idle
  /\ NoDevice
  /\ \E n \in DOMAIN afPacketByName : Delete(afPacketByName[n].config, TRUE)

LiveAppeared == Idle /\ NoDevice /\ \E h \in HostIfs : Appeared(h)

LiveVanished == Idle /\ NoDevice /\ \E h \in HostIfs, idx \in SwIdxs : Vanished(h, TRUE, TRUE, idx)

LiveReConfigure == NoDevice /\ \E idx \in SwIdxs : ReConfigure(TRUE, idx)

\* a returned descriptor is never dropped
LiveReturn == Return /\ ~(op.name = "Appeared" /\ ret.desc # NoDesc)

LiveNext ==
  \/ LiveConfigure
  \/ LiveDelete
  \/ LiveAppeared
  \/ LiveVanished
  \/ LiveReConfigure
  \/ LiveReturn

LiveSpec ==
  /\ LiveInit
  /\ [][LiveNext]_vars
  /\ WF_vars(LiveReConfigure)
  /\ WF_vars(LiveReturn)

(***************************************************************************)
(* C5 (held requests are retried): under LiveSpec, an interface n that is  *)
(* cached pending on host interface h when the Appeared(h) notification    *)
(* has been processed eventually becomes Active, unless it is deleted or h *)
(* vanishes; also when several pending interfaces are bound to h.          *)
(***************************************************************************)
C5_HeldRequestEventuallyActive ==
  \A n \in Names, h \in HostIfs :
    (/\ op.name = "Appeared" /\ op.host = h
     /\ CachedByName(n, TRUE)
     /\ afPacketByName[n].config.HostIfName = h)
      ~> (\/ CachedByName(n, FALSE)
          \/ n \notin DOMAIN afPacketByName
          \/ h \notin hostInterfaces)

(***************************************************************************)
(* C11: when Configure issues a Driver create call and the Driver fails,   *)
(* Configure returns the Driver's error with pending=false and both        *)
(* indices are as before the call; when the Driver succeeds an entry with  *)
(* pending=false is cached for the descriptor and the Driver's handle is   *)
(* returned.                                                               *)
(***************************************************************************)
C11_ConfigureDriverOutcome ==
  [][(op'.name = "Configure" /\ CallsOf(calls', "create") # {}) =>
       /\ Len(calls') = 1
       /\ calls'[1].params = op'.new.HostIfName
       /\ ret'.pending = FALSE
       /\ ~calls'[1].ok =>
            /\ ret'.err = ErrDriver
            /\ UNCHANGED <<afPacketByName, afPacketByHostIf>>
       /\ calls'[1].ok =>
            /\ ret'.err = ErrNil
            /\ ret'.swIndex \in SwIdxs
            /\ op'.new.Name \in DOMAIN afPacketByName'
            /\ afPacketByName'[op'.new.Name] = AfPacketConfig(op'.new, FALSE)
            /\ op'.new.HostIfName \in DOMAIN afPacketByHostIf'
            /\ afPacketByHostIf'[op'.new.HostIfName] = AfPacketConfig(op'.new, FALSE)]_vars

C11_Witness ==
  /\ op.name = "Configure"
  /\ Len(calls) = 1
  /\ ~calls[1].ok
  /\ ret.err = ErrDriver
  /\ op.new.Name \notin DOMAIN afPacketByName

(***************************************************************************)
(* C12, as claimed: after ResolveCreatedLinuxInterface(n) the name n is in *)
(* hostInterfaces and after ResolveDeletedLinuxInterface(n) it is not,     *)
(* with host-interface tracking enabled or disabled; no other entry point  *)
(* changes hostInterfaces.                                                 *)
(***************************************************************************)
C12_HostSetMirrors_Original ==
  [][/\ op'.name = "Appeared" => hostInterfaces' = hostInterfaces \cup {op'.host}
     /\ op'.name = "Vanished" => hostInterfaces' = hostInterfaces \ {op'.host}
     /\ op'.name \notin {"Appeared", "Vanished"} => UNCHANGED hostInterfaces]_vars

(***************************************************************************)
(* C12 amended: with tracking enabled hostInterfaces mirrors the           *)
(* notifications (n added on appearance, removed on vanish); with tracking *)
(* disabled both handlers leave hostInterfaces as it is; no other entry    *)
(* point changes hostInterfaces.                                           *)
(***************************************************************************)
C12_HostSetMirrors ==
  [][/\ (withLinuxPlugin /\ op'.name = "Appeared") =>
          hostInterfaces' = hostInterfaces \cup {op'.host}
     /\ (withLinuxPlugin /\ op'.name = "Vanished") =>
          hostInterfaces' = hostInterfaces \ {op'.host}
     /\ (~withLinuxPlugin /\ op'.name \in {"Appeared", "Vanished"}) =>
          UNCHANGED hostInterfaces
     /\ op'.name \notin {"Appeared", "Vanished"} => UNCHANGED hostInterfaces]_vars

\* veth0 has vanished while veth1 is still known
C12_Witness ==
  /\ withLinuxPlugin
  /\ op.name = "Vanished"
  /\ op.host \notin hostInterfaces
  /\ hostInterfaces # {}

(***************************************************************************)
(* C14: Modify never issues a Driver call, and whenever it returns         *)
(* recreate=true it leaves both indices unchanged.                         *)
(***************************************************************************)
C14_ModifyFrame ==
  [][op'.name = "Modify" =>
       /\ calls' = <<>>
       /\ ret'.recreate => UNCHANGED <<afPacketByName, afPacketByHostIf>>]_vars

\* an Active entry whose HostIfName is changed by the new descriptor
C14_Witness ==
  /\ op.name = "Modify"
  /\ ret.recreate
  /\ op.new.HostIfName # op.old.HostIfName
  /\ CachedByName(op.old.Name, FALSE)
  /\ afPacketByName[op.old.Name].config = op.old
  /\ CachedByHostIf(op.old.HostIfName, FALSE)

(***************************************************************************)
(* C15: with tracking enabled, ResolveCreatedLinuxInterface(h) returns a   *)
(* descriptor iff the host-interface index holds a pending entry under h,  *)
(* and then that entry's descriptor; it issues no Driver call and changes  *)
(* neither index (so an entry that is not pending stays as it is).         *)
(***************************************************************************)
C15_AppearedFrame ==
  [][(withLinuxPlugin /\ op'.name = "Appeared") =>
       /\ (ret'.desc # NoDesc) <=> CachedByHostIf(op'.host, TRUE)
       /\ CachedByHostIf(op'.host, TRUE) => ret'.desc = afPacketByHostIf[op'.host].config
       /\ calls' = <<>>
       /\ UNCHANGED <<afPacketByName, afPacketByHostIf>>]_vars

\* the entry under h is already configured: nothing is returned
C15_Witness ==
  /\ withLinuxPlugin
  /\ op.name = "Appeared"
  /\ CachedByHostIf(op.host, FALSE)
  /\ ret.desc = NoDesc

(***************************************************************************)
(* C16: with tracking disabled, Configure of an AF_PACKET descriptor       *)
(* always issues a Driver create call and never returns pending=true, no   *)
(* cached entry is ever pending, and the two host-interface handlers issue *)
(* no Driver call and change neither index.                                *)
(***************************************************************************)
C16_TrackingDisabled ==
  [][~withLinuxPlugin =>
       /\ (op'.name = "Configure" /\ op'.new.Type = AF_PACKET) =>
            /\ Len(calls') = 1
            /\ calls'[1].call = "create"
            /\ ret'.pending = FALSE
       /\ \A n \in DOMAIN afPacketByName' : ~afPacketByName'[n].pending
       /\ \A h \in DOMAIN afPacketByHostIf' : ~afPacketByHostIf'[h].pending
       /\ op'.name \in {"Appeared", "Vanished"} =>
            /\ calls' = <<>>
            /\ ret'.desc = NoDesc
            /\ UNCHANGED <<afPacketByName, afPacketByHostIf>>]_vars

\* a vanish notification for the host interface of a configured entry
C16_Witness ==
  /\ ~withLinuxPlugin
  /\ op.name = "Vanished"
  /\ CachedByHostIf(op.host, FALSE)

(***************************************************************************)
(* C17: every error returned by the Driver on a create or delete call is   *)
(* returned by the entry point during whose execution the call was issued  *)
(* (Configure, Delete, ResolveDeletedLinuxInterface).                      *)
(***************************************************************************)
C17_DriverErrorReturned ==
  (\E i \in DOMAIN calls : ~calls[i].ok) => ret.err = ErrDriver

(***************************************************************************)
(* C18: with tracking enabled, between calls every name-indexed entry with *)
(* pending=false has its HostIfName in hostInterfaces.                     *)
(***************************************************************************)
C18_ActiveImpliesHostIfKnown ==
  withLinuxPlugin =>
    \A n \in DOMAIN afPacketByName :
      ~afPacketByName[n].pending => afPacketByName[n].config.HostIfName \in hostInterfaces

(***************************************************************************)
(* C19: Delete of interface A leaves every other cached interface B as it  *)
(* was: B is still found under its Name and under its HostIfName, with the *)
(* same config and pending flag, also when A and B share the HostIfName.   *)
(***************************************************************************)
C19_DeleteTouchesOnlyItsEntry ==
  [][(op'.name = "Delete" /\ op'.new.Type = AF_PACKET) =>
       \A n \in DOMAIN afPacketByName \ {op'.new.Name} :
         LET b == afPacketByName[n]
             h == b.config.HostIfName
         IN (h \in DOMAIN afPacketByHostIf /\ afPacketByHostIf[h] = b) =>
              /\ n \in DOMAIN afPacketByName' /\ afPacketByName'[n] = b
              /\ h \in DOMAIN afPacketByHostIf' /\ afPacketByHostIf'[h] = b]_vars

(***************************************************************************)
(* C20: with tracking enabled, ResolveDeletedLinuxInterface(h) on an entry *)
(* that is cached pending under h (found under h and under its Name)       *)
(* issues no Driver call and leaves both indices holding that same single  *)
(* pending entry, so repeated notifications neither duplicate nor lose it. *)
(***************************************************************************)
C20_VanishedOnPending ==
  [][(/\ withLinuxPlugin
      /\ op'.name = "Vanished"
      /\ CachedByHostIf(op'.host, TRUE)
      /\ CachedByName(afPacketByHostIf[op'.host].config.Name, TRUE)
      /\ afPacketByName[afPacketByHostIf[op'.host].config.Name] = afPacketByHostIf[op'.host]) =>
       /\ calls' = <<>>
       /\ UNCHANGED <<afPacketByName, afPacketByHostIf>>
       /\ op'.host \notin hostInterfaces']_vars

\* no Driver call was made: Delete found the entry pending
C20_Witness ==
  /\ withLinuxPlugin
  /\ op.name = "Vanished"
  /\ calls = <<>>
  /\ CachedByHostIf(op.host, TRUE)
  /\ CachedByName(afPacketByHostIf[op.host].config.Name, TRUE)

(***************************************************************************)
(* Specification with the Driver as a set of live device objects: a        *)
(* successful create adds the object for the call's AF_PACKET parameters,  *)
(* a successful delete removes it, a failed call changes nothing.          *)
(***************************************************************************)
ApplyCall(objs, c) ==
  IF ~c.ok THEN objs
  ELSE IF c.call = "create" THEN objs \cup {c.params}
  ELSE objs \ {c.params}

RECURSIVE ApplyCalls(_, _)
ApplyCalls(objs, cs) ==
  IF cs = <<>> THEN objs ELSE ApplyCalls(ApplyCall(objs, Head(cs)), Tail(cs))

\* the device has executed the calls of the entry point
Device == vppIfs' = ApplyCalls(vppIfs, calls')

DevConfigure ==
  Idle /\ \E d \in Descriptors, ok \in BOOLEAN, idx \in SwIdxs : Configure(d, ok, idx, "") /\ Device

DevModify == Idle /\ \E new \in Descriptors, old \in Descriptors : Modify(new, old) /\ Device

DevDelete == Idle /\ \E d \in Descriptors, ok \in BOOLEAN : Delete(d, ok) /\ Device

DevAppeared == Idle /\ \E h \in HostIfs : Appeared(h) /\ Device

DevVanished ==
  Idle /\ \E h \in HostIfs, okDel \in BOOLEAN, okAdd \in BOOLEAN, idx \in SwIdxs :
            Vanished(h, okDel, okAdd, idx) /\ Device

DevReConfigure == \E ok \in BOOLEAN, idx \in SwIdxs : ReConfigure(ok, idx) /\ Device

DevNext ==
  \/ DevConfigure
  \/ DevModify
  \/ DevDelete
  \/ DevAppeared
  \/ DevVanished
  \/ DevReConfigure
  \/ Return

DevSpec == Init /\ [][DevNext]_vars

(***************************************************************************)
(* C13 (invariant I2): under DevSpec, every cache entry with pending=false *)
(* has a live device object for its AF_PACKET parameters.                  *)
(***************************************************************************)
C13_I2 ==
  /\ \A n \in DOMAIN afPacketByName :
       ~afPacketByName[n].pending => afPacketByName[n].config.HostIfName \in vppIfs
  /\ \A h \in DOMAIN afPacketByHostIf :
       ~afPacketByHostIf[h].pending => afPacketByHostIf[h].config.HostIfName \in vppIfs

TypeOK ==
  /\ withLinuxPlugin \in BOOLEAN
  /\ hostInterfaces \subseteq HostIfs
  /\ DOMAIN afPacketByName \subseteq Names
  /\ DOMAIN afPacketByHostIf \subseteq HostIfs
  /\ vppIfs \subseteq HostIfs
====
